---------------------------- MODULE Spec2Model ----------------------------
(***************************************************************************)
(* Albums API (vearutop/rest-tutorial, main.go): an in-memory catalog of   *)
(* albums served over HTTP by three use case interactors, getAlbums,       *)
(* getAlbumByID and postAlbums, with JSON Schema request validation        *)
(* derived from the field tags of the album structure.                     *)
(*                                                                         *)
(* Spec      requests are handled one at a time, each to completion.       *)
(* SpecConc  create requests are handled by concurrent goroutines; the     *)
(*           steps of postAlbums interleave.                               *)
(*                                                                         *)
(* A price is a whole number of cents (56.99 is 5699).  An optional JSON   *)
(* member is a sequence of length 0 (member absent) or 1 (its value).      *)
(***************************************************************************)
EXTENDS Integers, Sequences, FiniteSets, TLC

VARIABLES
    albums,    \* the package-level slice `albums`
    resp,      \* the last request handled and the response it got
    created,   \* history: the albums of the 201 responses, in order
    pc,        \* per goroutine: position in the postAlbums handler
    in,        \* per goroutine: `in`, the decoded input
    rng,       \* per goroutine: the slice value `range albums` iterates over
    idx,       \* per goroutine: position of the range loop in rng
    cur,       \* per goroutine: the slice value read by append(albums, in)
    ret,       \* per goroutine: status of the response, 0 until it returns
    passedAt   \* history, per goroutine: how many creates had appended when
               \* its uniqueness loop ended without a match

vars == <<albums, resp, created, pc, in, rng, idx, cur, ret, passedAt>>

----------------------------------------------------------------------------
(* Bounds of the model *)

\* Successful creates are explored while the catalog is shorter than this.
MaxAlbums == 5

\* Number of concurrent create requests in SpecConc.
NumProcs == 2

Procs == 1..NumProcs

----------------------------------------------------------------------------
(* The album structure and the seed data *)

album(id, title, artist, price) ==
    [ID |-> id, Title |-> title, Artist |-> artist, Price |-> price]

\* The zero value album{} a fresh output instance holds.
ZeroAlbum == album("", "", "", 0)

Seed ==
    << album("1", "Blue Train", "John Coltrane", 5699),
       album("2", "Jeru", "Gerry Mulligan", 1799),
       album("3", "Sarah Vaughan and Clifford Brown", "Sarah Vaughan", 3999) >>

----------------------------------------------------------------------------
(* Request bodies: JSON objects with each member absent or present *)

Opt(S) == {<<>>} \cup {<<v>> : v \in S}

BodyIDs     == Opt({"", "1", "4", "5", "6"})
BodyTitles  == Opt({"", "Kind of Blue"})
\* artist and price members that go together in the explored bodies
BodyExtras  == { [artist |-> <<>>,              price |-> <<>>],
                 [artist |-> <<"Miles Davis">>, price |-> <<4999>>],
                 [artist |-> <<>>,              price |-> <<-1>>] }

Bodies ==
    { [id |-> i, title |-> t, artist |-> e.artist, price |-> e.price] :
        i \in BodyIDs, t \in BodyTitles, e \in BodyExtras }

NoBody == [id |-> <<>>, title |-> <<>>, artist |-> <<>>, price |-> <<>>]

\* Values of the {id} path parameter of GET /albums/{id}.
PathIDs == {"1", "3", "4", "5", "6", "9"}

----------------------------------------------------------------------------
(* Validation by the schema of the field tags, and decoding *)

\* ID: required:"true" minLength:"1"
ValidID_RequiredOnly(b) == Len(b.id) = 1
ValidID(b) == Len(b.id) = 1 /\ Len(b.id[1]) >= 1

\* Title: required:"true" (no minLength)
ValidTitle(b) == Len(b.title) = 1

\* Price: minimum:"0", not required
ValidPrice_NoMinimum(b) == TRUE
ValidPrice(b) == Len(b.price) = 0 \/ b.price[1] >= 0

Validate(b) == ValidID(b) /\ ValidTitle(b) /\ ValidPrice(b)

\* json decoding into album: an absent member leaves the field's zero value.
Decode(b) ==
    album(IF Len(b.id) = 1 THEN b.id[1] ELSE "",
          IF Len(b.title) = 1 THEN b.title[1] ELSE "",
          IF Len(b.artist) = 1 THEN b.artist[1] ELSE "",
          IF Len(b.price) = 1 THEN b.price[1] ELSE 0)

----------------------------------------------------------------------------
(* The interactors, as functions of the catalog and the input *)

HasID(s, id) == \E i \in 1..Len(s) : s[i].ID = id

\* Index of the first album the range loop finds with the id.
FirstIndex(s, id) ==
    CHOOSE i \in 1..Len(s) :
        s[i].ID = id /\ \A j \in 1..(i - 1) : s[j].ID # id

getAlbums_Unassigned(s) == [err |-> "nil", out |-> <<>>]
getAlbums(s) == [err |-> "nil", out |-> s]

postAlbums_NoScan(s, a) == [err |-> "nil", albums |-> Append(s, a), out |-> a]
postAlbums_Prepend(s, a) ==
    IF HasID(s, a.ID)
    THEN [err |-> "AlreadyExists", albums |-> s, out |-> ZeroAlbum]
    ELSE [err |-> "nil", albums |-> <<a>> \o s, out |-> a]
postAlbums(s, a) ==
    IF HasID(s, a.ID)
    THEN [err |-> "AlreadyExists", albums |-> s, out |-> ZeroAlbum]
    ELSE [err |-> "nil", albums |-> Append(s, a), out |-> a]

getAlbumByID_Last(s, id) ==
    IF HasID(s, id)
    THEN [err |-> "nil", out |-> s[Len(s)]]
    ELSE [err |-> "NotFound", out |-> ZeroAlbum]
getAlbumByID_NoError(s, id) ==
    IF HasID(s, id)
    THEN [err |-> "nil", out |-> s[FirstIndex(s, id)]]
    ELSE [err |-> "nil", out |-> ZeroAlbum]
getAlbumByID(s, id) ==
    IF HasID(s, id)
    THEN [err |-> "nil", out |-> s[FirstIndex(s, id)]]
    ELSE [err |-> "NotFound", out |-> ZeroAlbum]

\* HTTP status of a response: the success status of the route, or the status
\* of the error the interactor returned.
StatusOf(err, success) ==
    CASE err = "nil"           -> success
      [] err = "AlreadyExists" -> 409
      [] err = "NotFound"      -> 404
      [] err = "BadInput"      -> 400

Response(op, id, req, status, a, list) ==
    [op |-> op, id |-> id, req |-> req, status |-> status, album |-> a, list |-> list]

----------------------------------------------------------------------------
(* Spec: requests handled one at a time *)

concVars == <<pc, in, rng, idx, cur, ret, passedAt>>

InitConcVars ==
    /\ pc  = [p \in Procs |-> "idle"]
    /\ in  = [p \in Procs |-> ZeroAlbum]
    /\ rng = [p \in Procs |-> <<>>]
    /\ idx = [p \in Procs |-> 0]
    /\ cur = [p \in Procs |-> <<>>]
    /\ ret = [p \in Procs |-> 0]
    /\ passedAt = [p \in Procs |-> 0]

Init ==
    /\ albums = Seed
    /\ resp = Response("none", "", NoBody, 0, ZeroAlbum, <<>>)
    /\ created = <<>>
    /\ InitConcVars

\* GET /albums
GetAlbums ==
    LET r == getAlbums(albums) IN
    /\ resp' = Response("list", "", NoBody, StatusOf(r.err, 200), ZeroAlbum, r.out)
    /\ UNCHANGED <<albums, created, concVars>>

\* GET /albums/{id}
GetAlbumByID(id) ==
    LET r == getAlbumByID(albums, id) IN
    /\ resp' = Response("get", id, NoBody, StatusOf(r.err, 200), r.out, <<>>)
    /\ UNCHANGED <<albums, created, concVars>>

\* POST /albums: the body is validated, decoded and handed to postAlbums.
PostAlbums(b) ==
    IF ~Validate(b)
    THEN /\ resp' = Response("create", "", b, StatusOf("BadInput", 201), ZeroAlbum, <<>>)
         /\ UNCHANGED <<albums, created, concVars>>
    ELSE LET r == postAlbums(albums, Decode(b)) IN
         /\ r.err = "nil" => Len(albums) < MaxAlbums
         /\ albums' = r.albums
         /\ resp' = Response("create", "", b, StatusOf(r.err, 201), r.out, <<>>)
         /\ created' = IF r.err = "nil" THEN Append(created, r.out) ELSE created
         /\ UNCHANGED concVars

Next ==
    \/ GetAlbums
    \/ \E id \in PathIDs : GetAlbumByID(id)
    \/ \E b \in Bodies : PostAlbums(b)

Spec == Init /\ [][Next]_vars

----------------------------------------------------------------------------
(* SpecConc: create requests handled by concurrent goroutines.  Each       *)
(* goroutine serves one POST /albums; reads and writes of the shared slice *)
(* `albums` are separate steps, with no lock around them.                   *)

\* Bodies of the concurrent create requests.
ConcBodies ==
    { b \in Bodies :
        /\ b.id \in {<<"1">>, <<"4">>, <<"5">>, <<"6">>}
        /\ b.title = <<"Kind of Blue">>
        /\ b.artist = <<>>
        /\ (b.price = <<-1>> => b.id = <<"4">>) }

\* The request arrives: the body is validated and decoded into the input.
Receive(p, b) ==
    /\ pc[p] = "idle"
    /\ IF ~Validate(b)
       THEN /\ ret' = [ret EXCEPT ![p] = StatusOf("BadInput", 201)]
            /\ pc' = [pc EXCEPT ![p] = "done"]
            /\ UNCHANGED in
       ELSE /\ in' = [in EXCEPT ![p] = Decode(b)]
            /\ pc' = [pc EXCEPT ![p] = "range"]
            /\ UNCHANGED ret
    /\ UNCHANGED <<albums, resp, created, rng, idx, cur, passedAt>>

\* `for _, a := range albums`: the range expression is evaluated once.
RangeStart(p) ==
    /\ pc[p] = "range"
    /\ rng' = [rng EXCEPT ![p] = albums]
    /\ idx' = [idx EXCEPT ![p] = 1]
    /\ pc' = [pc EXCEPT ![p] = "scan"]
    /\ UNCHANGED <<albums, resp, created, in, cur, ret, passedAt>>

\* One iteration of the uniqueness loop, or its end.
ScanStep_NoCompare(p) ==
    /\ pc[p] = "scan"
    /\ IF idx[p] > Len(rng[p])
       THEN /\ pc' = [pc EXCEPT ![p] = "append"]
            /\ passedAt' = [passedAt EXCEPT ![p] =
                               Cardinality({q \in Procs : ret[q] = 201})]
            /\ UNCHANGED idx
       ELSE /\ idx' = [idx EXCEPT ![p] = idx[p] + 1]
            /\ UNCHANGED <<pc, passedAt>>
    /\ UNCHANGED <<albums, resp, created, in, rng, cur, ret>>
ScanStep(p) ==
    /\ pc[p] = "scan"
    /\ IF idx[p] > Len(rng[p])
       THEN /\ pc' = [pc EXCEPT ![p] = "append"]
            /\ passedAt' = [passedAt EXCEPT ![p] =
                               Cardinality({q \in Procs : ret[q] = 201})]
            /\ UNCHANGED <<idx, ret>>
       ELSE IF rng[p][idx[p]].ID = in[p].ID
       THEN /\ ret' = [ret EXCEPT ![p] = StatusOf("AlreadyExists", 201)]
            /\ pc' = [pc EXCEPT ![p] = "done"]
            /\ UNCHANGED <<idx, passedAt>>
       ELSE /\ idx' = [idx EXCEPT ![p] = idx[p] + 1]
            /\ UNCHANGED <<pc, ret, passedAt>>
    /\ UNCHANGED <<albums, resp, created, in, rng, cur>>

\* append(albums, in) reads the shared slice ...
AppendRead(p) ==
    /\ pc[p] = "append"
    /\ cur' = [cur EXCEPT ![p] = albums]
    /\ pc' = [pc EXCEPT ![p] = "write"]
    /\ UNCHANGED <<albums, resp, created, in, rng, idx, ret, passedAt>>

\* ... and `albums = ...` writes the extended slice back; the input is
\* echoed and the handler returns nil.
AppendWrite(p) ==
    /\ pc[p] = "write"
    /\ albums' = Append(cur[p], in[p])
    /\ ret' = [ret EXCEPT ![p] = StatusOf("nil", 201)]
    /\ pc' = [pc EXCEPT ![p] = "done"]
    /\ UNCHANGED <<resp, created, in, rng, idx, cur, passedAt>>

NextConc ==
    \E p \in Procs :
        \/ \E b \in ConcBodies : Receive(p, b)
        \/ RangeStart(p)
        \/ ScanStep(p)
        \/ AppendRead(p)
        \/ AppendWrite(p)

SpecConc == Init /\ [][NextConc]_vars


----------------------------------------------------------------------------
(* Properties *)

\* The id member of a body is present and is the id of an album of s.
IDIn(b, s) == Len(b.id) = 1 /\ HasID(s, b.id[1])

\* The id member of a body is present, non-empty and no album of s has it.
IDFresh(b, s) == Len(b.id) = 1 /\ b.id[1] # "" /\ ~HasID(s, b.id[1])

\* C1: with requests handled one at a time from the seed catalog, no two
\* albums of the catalog ever share an id.
C1_UniqueIDs ==
    \A i, j \in 1..Len(albums) : albums[i].ID = albums[j].ID => i = j

\* A duplicate create has just been refused after two albums were created.
C1_Witness ==
    /\ Len(albums) = Len(Seed) + 2
    /\ resp.op = "create"
    /\ resp.status = 409

\* C2 (as claimed): a create whose id is that of an album in the catalog gets
\* 409 and leaves the catalog as it was, whatever its other members are.
C2_ExistingIDAlways409 ==
    [][(resp'.op = "create" /\ IDIn(resp'.req, albums))
          => (resp'.status = 409 /\ albums' = albums)]_vars

\* C2 (amended): a create whose id is that of an album in the catalog leaves
\* the catalog as it was; it gets 409 when its body passes validation,
\* whatever the values of title, artist and price, and 400 when it does not.
C2_ExistingIDRefused ==
    [][(resp'.op = "create" /\ IDIn(resp'.req, albums))
          => /\ albums' = albums
             /\ resp'.status = IF Validate(resp'.req) THEN 409 ELSE 400]_vars

\* A create with the id of an album created earlier, and other members than
\* that album has, has just been refused with 409.
C2_Witness ==
    /\ resp.op = "create"
    /\ resp.status = 409
    /\ \E i \in (Len(Seed) + 1)..Len(albums) :
          /\ resp.req.id = <<albums[i].ID>>
          /\ Decode(resp.req) # albums[i]

\* C3 (as claimed): a create with the empty title, a non-empty unused id and
\* a non-negative price gets 400 and leaves the catalog as it was.
C3_EmptyTitleRefused ==
    [][(/\ resp'.op = "create"
        /\ resp'.req.title = <<"">>
        /\ IDFresh(resp'.req, albums)
        /\ ValidPrice(resp'.req))
          => (resp'.status = 400 /\ albums' = albums)]_vars

\* C4: a create whose id is absent or empty gets 400 and leaves the catalog
\* as it was, and no album of the catalog ever has the empty id.
C4_EmptyIDRefused ==
    /\ [](\A i \in 1..Len(albums) : albums[i].ID # "")
    /\ [][(resp'.op = "create" /\ resp'.req.id \in {<<>>, <<"">>})
             => (resp'.status = 400 /\ albums' = albums)]_vars

\* A create with the empty id and otherwise valid members has just been
\* refused with 400 after an album was created.
C4_Witness ==
    /\ resp.op = "create"
    /\ resp.req.id = <<"">>
    /\ ValidTitle(resp.req) /\ ValidPrice(resp.req)
    /\ resp.status = 400
    /\ Len(albums) > Len(Seed)

C6_AbsentIDNotFound ==
    [][(resp'.op = "get" /\ ~HasID(albums, resp'.id))
          => (resp'.status = 404 /\ albums' = albums)]_vars

\* A lookup has just failed with 404 on a catalog that has grown.
C6_Witness ==
    /\ resp.op = "get"
    /\ resp.status = 404
    /\ ~HasID(albums, resp.id)
    /\ Len(albums) > Len(Seed)

C9_NegativePriceRefused ==
    /\ [](\A i \in 1..Len(albums) : albums[i].Price >= 0)
    /\ [][(/\ resp'.op = "create"
           /\ Len(resp'.req.price) = 1 /\ resp'.req.price[1] < 0
           /\ IDFresh(resp'.req, albums)
           /\ Len(resp'.req.title) = 1 /\ resp'.req.title[1] # "")
             => (resp'.status = 400 /\ albums' = albums)]_vars

\* A create with a negative price, an unused id and a title has just been
\* refused with 400 after an album was created.
C9_Witness ==
    /\ resp.op = "create"
    /\ resp.req.price = <<-1>>
    /\ IDFresh(resp.req, albums)
    /\ resp.req.title = <<"Kind of Blue">>
    /\ resp.status = 400
    /\ Len(albums) > Len(Seed)

\* C10 (as claimed): once concurrent creates with pairwise distinct valid ids,
\* none of them in the catalog before, have all returned, the catalog has
\* one more album for each of them, each id once.
C10_AllCreatesPresent ==
    (/\ \A p \in Procs : pc[p] = "done" /\ ret[p] # 400
     /\ \A p \in Procs : ~HasID(Seed, in[p].ID)
     /\ \A p, q \in Procs : in[p].ID = in[q].ID => p = q)
        => /\ Len(albums) = Len(Seed) + NumProcs
           /\ \A p \in Procs :
                 Cardinality({i \in 1..Len(albums) : albums[i].ID = in[p].ID}) = 1


\* Number of albums of s with the id.
CountID(s, id) == Cardinality({i \in 1..Len(s) : s[i].ID = id})

\* C11: the uniqueness loop and the append of a create are not atomic.  A
\* goroutine whose loop ended without a match appends and returns 201 without
\* looking at the catalog again, whatever was appended since; and the catalog
\* holds two albums with one id only when two creates with that id both got
\* 201, each after a loop that found no album with the id.  (The witness is
\* the interleaving: two creates with an unused id, both loops over before
\* either append, both 201, two albums with the id.)
C11_CheckThenAppendNotAtomic ==
    /\ [](\A i, j \in 1..Len(albums) :
            (i # j /\ albums[i].ID = albums[j].ID) =>
                \E p, q \in Procs :
                    /\ p # q
                    /\ in[p].ID = albums[i].ID /\ in[q].ID = albums[i].ID
                    /\ ret[p] = 201 /\ ret[q] = 201
                    /\ ~HasID(rng[p], in[p].ID) /\ ~HasID(rng[q], in[q].ID))
    /\ [][\A p \in Procs :
            pc[p] \in {"append", "write"} =>
                /\ pc'[p] \in {"append", "write", "done"}
                /\ pc'[p] = "done" =>
                      /\ ret'[p] = 201
                      /\ albums'[Len(albums')] = in[p]]_vars

\* Two creates with the same valid id, which no album had, have both ended
\* their uniqueness loop before either appended, both got 201, and the
\* catalog holds two albums with the id.
C11_Witness ==
    \E p, q \in Procs :
        /\ p # q
        /\ in[p].ID = in[q].ID /\ in[p].ID # "" /\ ~HasID(Seed, in[p].ID)
        /\ pc[p] = "done" /\ pc[q] = "done"
        /\ ret[p] = 201 /\ ret[q] = 201
        /\ passedAt[p] = 0 /\ passedAt[q] = 0
        /\ CountID(albums, in[p].ID) = 2
        /\ ~C1_UniqueIDs

=============================================================================
